---- MODULE Spec2Model ----
(***************************************************************************)
(* react-prod-sourcemaps: rewriting a bundle's sourcemap so that the       *)
(* minified react-dom artifact is replaced by the original sourcemap of    *)
(* the exact released version.                                             *)
(*                                                                         *)
(* Source names are modelled structurally (a scheme plus path segments),   *)
(* so URI normalisation is computed, not assumed.  Embedded contents are   *)
(* opaque texts; the SHA-256 fingerprint is an injective tagging of them.  *)
(***************************************************************************)
EXTENDS Integers, Sequences, FiniteSets, TLC

VARIABLES
    file,        \* the file at the path given to loadSourcemap
    doc,         \* the in-memory value handed to maybeRewriteSourcemapWithReactProd
    result,      \* what the last call produced (a return value or a raised error)
    pc,          \* position of the API caller
    pass,        \* how many times rewrite has been applied (second pass: to its own output)
    firstResult, \* the result of the first rewrite, kept while the second pass runs
    emitted,     \* plugin: path -> file as the build tool emitted it
    disk,        \* plugin: path -> file on disk
    generatedAssets, \* plugin: the asset list handed over by the build tool
    i,           \* plugin: loop index of rewireSourceMapsFromGeneratedAssetList (0-based)
    ppc,         \* plugin: position of the loop
    reads,       \* plugin: paths read so far, in order
    writes,      \* plugin: paths written so far, in order
    outcomes     \* plugin: per rewrite call that returned, the path and rewroteSourcemap

vars == <<file, doc, result, pc, pass, firstResult,
          emitted, disk, generatedAssets, i, ppc, reads, writes, outcomes>>

apiVars == <<file, doc, result, pc, pass, firstResult>>
pluginVars == <<emitted, disk, generatedAssets, i, ppc, reads, writes, outcomes>>

(***************************************************************************)
(* Bounds                                                                  *)
(***************************************************************************)
MaxSources == 2
MaxAssets == 3

(***************************************************************************)
(* Source names                                                            *)
(***************************************************************************)
Name(scheme, segs) == [scheme |-> scheme, segs |-> segs]

\* the empty string '' (also what `s || ''` makes of a null entry)
EmptyName == Name("", <<>>)
\* a null entry of `sources`
NullName == Name("<null>", <<>>)

ProdMin == "react-dom.production.min.js"
ProfMin == "react-dom.profiling.min.js"

\* "src/app.js"
AppName == Name("", <<"src", "app.js">>)
\* "webpack://x/./node_modules/react-dom.production.min.js"
WebDotName == Name("webpack://x", <<".", "node_modules", ProdMin>>)
\* "./node_modules/react-dom.production.min.js"
RelDotName == Name("", <<".", "node_modules", ProdMin>>)
\* "react-dom.profiling.min.js"
ProfName == Name("", <<ProfMin>>)

SourceNames == {NullName, AppName, WebDotName, RelDotName, ProfName}

IsAbsolute(n) == n.scheme # "" /\ n.scheme # "<null>"

\* resolve-uri's isRelative: the text starts with "."
IsRelative(n) == n.scheme = "" /\ Len(n.segs) > 0 /\ n.segs[1] \in {".", ".."}

\* resolve-uri's normalizePath: drops "." segments, lets ".." pop the previous
\* segment; leading ".." of a relative path are kept, and dropped at the root
\* of an absolute one.
RECURSIVE NormalizePath(_, _, _)
NormalizePath(segs, acc, absolute) ==
    IF segs = <<>> THEN acc
    ELSE LET s == Head(segs)
             rest == Tail(segs)
         IN  IF s = "." THEN NormalizePath(rest, acc, absolute)
             ELSE IF s = ".."
                  THEN IF acc # <<>> /\ acc[Len(acc)] # ".."
                       THEN NormalizePath(rest, SubSeq(acc, 1, Len(acc) - 1), absolute)
                       ELSE IF absolute
                            THEN NormalizePath(rest, acc, absolute)
                            ELSE NormalizePath(rest, Append(acc, ".."), absolute)
                  ELSE NormalizePath(rest, Append(acc, s), absolute)

\* @jridgewell/resolve-uri: resolve `input` against `base`
ResolveUri(input, base) ==
    IF input = EmptyName /\ base = EmptyName THEN EmptyName
    ELSE IF IsAbsolute(input)
         THEN Name(input.scheme, NormalizePath(input.segs, <<>>, TRUE))
         ELSE IF base # EmptyName /\ IsAbsolute(base)
              THEN Name(base.scheme, NormalizePath(base.segs \o input.segs, <<>>, TRUE))
              ELSE LET joined == IF base # EmptyName THEN base.segs \o input.segs
                                 ELSE input.segs
                       path == NormalizePath(joined, <<>>, FALSE)
                       lead == IF base # EmptyName THEN base ELSE input
                   IN  IF path = <<>> THEN Name("", <<".">>)
                       ELSE IF IsRelative(lead) /\ path[1] # ".."
                            THEN Name("", <<".">> \o path)
                            ELSE Name("", path)

\* a faulty variant that forgets to normalise
resolve_identity(input, base) == input

\* resolve (borrowed from trace-mapping): the base is always a directory
resolve(input, base) == ResolveUri(input, base)

\* trace-mapping's stripFilename: the directory of a path
stripFilename(n) ==
    IF n.segs = <<>> THEN n
    ELSE Name(n.scheme, SubSeq(n.segs, 1, Len(n.segs) - 1))

\* `s || ''`
OrEmpty(n) == IF n = NullName THEN EmptyName ELSE n

\* a faulty variant whose pattern also accepts the application's own files
SUPPORTED_PACKAGES_loose(n) ==
    \E k \in 1..Len(n.segs) : n.segs[k] \in {ProdMin, ProfMin, "app.js"}

\* SUPPORTED_PACKAGES.exec(source) !== null
SUPPORTED_PACKAGES(n) == \E k \in 1..Len(n.segs) : n.segs[k] \in {ProdMin, ProfMin}

(***************************************************************************)
(* Documents, files, contents                                              *)
(***************************************************************************)
NullContent == "<null>"
ProdText == "text of react-dom.production.min.js 18.2.0"
ProfText == "text of react-dom.profiling.min.js 18.2.0"
OtherText == "some other text"
Contents == {NullContent, ProdText, ProfText, OtherText}

NoRoot == EmptyName
SrcRoot == Name("", <<"src">>)
SourceRoots == {NoRoot, SrcRoot}

\* an in-memory JavaScript value: a parsed JSON document, or something else
Value(kind, version, hasNames, hasSources, sources, hasContent, content, root, mappings) ==
    [kind |-> kind, version |-> version, hasNames |-> hasNames,
     hasSources |-> hasSources, sources |-> sources,
     hasSourcesContent |-> hasContent, sourcesContent |-> content,
     sourceRoot |-> root, mappings |-> mappings]

\* a version-3 document; `mappings` lists, per generated segment, the index of
\* the source it points to
SourceMapV3(sources, hasContent, content, root, mappings) ==
    Value("object", 3, TRUE, TRUE, sources, hasContent, content, root, mappings)

NoValue == Value("undefined", 0, FALSE, FALSE, <<>>, FALSE, <<>>, NoRoot, <<>>)

\* the segments of a document whose first `count` sources are referenced, one
\* segment each, and whose other sources are declared but never referenced
MappingsOf(count) == [g \in 1..count |-> g]

\* objects with every combination of version tag and required fields
ObjectShapes ==
    { Value("object", v, hn, hs, IF hs THEN <<WebDotName>> ELSE <<>>,
            hs, IF hs THEN <<ProdText>> ELSE <<>>, NoRoot, IF hs THEN <<1>> ELSE <<>>) :
        v \in {0, 2, 3}, hn \in BOOLEAN, hs \in BOOLEAN }

\* values that are not version-3 documents: null, undefined, a number, and
\* objects whose version is missing (0) or 2, or that lack names or sources
InvalidValues ==
    { Value("null", 0, FALSE, FALSE, <<>>, FALSE, <<>>, NoRoot, <<>>),
      NoValue,
      Value("number", 0, FALSE, FALSE, <<>>, FALSE, <<>>, NoRoot, <<>>) }
    \cup { o \in ObjectShapes : ~(o.version = 3 /\ o.hasNames /\ o.hasSources) }

\* a file on disk: absent, bytes that are not JSON, or the JSON text of a value
File(state, value) == [state |-> state, value |-> value]
AbsentFile == File("absent", NoValue)
GarbageFile == File("garbage", NoValue)
JsonFile(v) == File("json", v)

(***************************************************************************)
(* Results of calls: a return value or a raised error                      *)
(***************************************************************************)
NoError == "none"

\* isSourceMapV3 without the `"sources" in map` conjunct
isSourceMapV3_no_sources_check(map) ==
    /\ map.kind = "object"
    /\ map.version = 3
    /\ map.hasNames

isSourceMapV3(map) ==
    /\ map.kind \in {"object", "null"}   \* typeof map === "object"
    /\ map.kind # "null"                 \* map !== null
    /\ map.version = 3
    /\ map.hasNames
    /\ map.hasSources

loadSourcemap(f) ==
    IF f.state = "absent"            \* !fs.existsSync(filePath)
    THEN [raised |-> TRUE, error |-> "Cannot find", value |-> NoValue]
    ELSE IF f.state = "garbage"      \* JSON.parse throws
    THEN [raised |-> TRUE, error |-> "SyntaxError", value |-> NoValue]
    ELSE IF ~isSourceMapV3(f.value)
    THEN [raised |-> TRUE, error |-> "Invalid sourcemap", value |-> NoValue]
    ELSE [raised |-> FALSE, error |-> NoError, value |-> f.value]

(***************************************************************************)
(* The version registry and its storage                                    *)
(***************************************************************************)
ReactVersion(filename, package, version) ==
    [filename |-> filename, package |-> package, version |-> version]

ReactDomProd == ReactVersion(ProdMin, "react-dom", "18.2.0")
ReactDomProf == ReactVersion(ProfMin, "react-dom", "18.2.0")
NullVersion == ReactVersion("<null>", "<null>", "<null>")
RegisteredVersions == {ReactDomProd, ReactDomProf}

hashSHA256(data) == <<"sha256", data>>

\* hashesToSourcemapDescriptors[contentHash], undefined when absent
hashesToSourcemapDescriptors(contentHash) ==
    IF contentHash = hashSHA256(ProdText) THEN ReactDomProd
    ELSE IF contentHash = hashSHA256(ProfText) THEN ReactDomProf
    ELSE NullVersion

\* the original sourcemap recorded for a release
OriginalName(versionEntry) ==
    Name("", <<IF versionEntry = ReactDomProd THEN "react-dom.production.js"
               ELSE "react-dom.profiling.js">>)

OriginalSourcemap(versionEntry) ==
    SourceMapV3(<<OriginalName(versionEntry)>>, TRUE,
                <<"original source of " \o versionEntry.filename>>, NoRoot, <<1>>)

\* storage: what is found at assets/<package>/<version>/<filename>.map
IntactStorage == [v \in RegisteredVersions |-> JsonFile(OriginalSourcemap(v))]
Storages ==
    { [IntactStorage EXCEPT ![ReactDomProd] = f] :
        f \in { JsonFile(OriginalSourcemap(ReactDomProd)), AbsentFile, GarbageFile,
                JsonFile(Value("object", 2, TRUE, TRUE, <<OriginalName(ReactDomProd)>>,
                               TRUE, <<"x">>, NoRoot, <<1>>)) } }

loadExistingSourcemap(versionEntry, storage) == loadSourcemap(storage[versionEntry])

(***************************************************************************)
(* Version Matcher                                                         *)
(***************************************************************************)
\* Array.prototype.indexOf, 1-based; 0 stands for -1
RECURSIVE IndexOfFrom(_, _, _)
IndexOfFrom(seq, x, k) ==
    IF k > Len(seq) THEN 0
    ELSE IF seq[k] = x THEN k
    ELSE IndexOfFrom(seq, x, k + 1)

IndexOf(seq, x) == IndexOfFrom(seq, x, 1)

\* the predicate of the findIndex pass
NormalizesTo(filename, reactDomFilename) ==
    IF filename = NullName \/ filename = EmptyName    \* !filename
    THEN FALSE
    ELSE resolve(filename, EmptyName) = reactDomFilename

\* Array.prototype.findIndex over that predicate, 1-based; 0 stands for -1
RECURSIVE FindIndexFrom(_, _, _)
FindIndexFrom(sources, reactDomFilename, k) ==
    IF k > Len(sources) THEN 0
    ELSE IF NormalizesTo(sources[k], reactDomFilename) THEN k
    ELSE FindIndexFrom(sources, reactDomFilename, k + 1)

\* inputSourcemap.sourcesContent?.[filenameIndex]
SourceContentsAt(inputSourcemap, filenameIndex) ==
    IF inputSourcemap.hasSourcesContent /\ filenameIndex \in 1..Len(inputSourcemap.sourcesContent)
    THEN inputSourcemap.sourcesContent[filenameIndex]
    ELSE NullContent

\* what one call of the matcher did: the position it selected and the pass
\* that selected it, the content it fingerprinted, and its outcome
Matched(reactDomFilename, threw, error, versionEntry, filenameIndex, by, sourceContents, consulted) ==
    [reactDomFilename |-> reactDomFilename, threw |-> threw, error |-> error,
     versionEntry |-> versionEntry, filenameIndex |-> filenameIndex, by |-> by,
     sourceContents |-> sourceContents, consulted |-> consulted]

\* lines 358-365: fingerprint, registry lookup
LookUpVersion(reactDomFilename, filenameIndex, by, sourceContents, versionEntry) ==
    IF sourceContents = NullContent               \* !sourceContents
    THEN Matched(reactDomFilename, TRUE, "missing content", NullVersion, filenameIndex, by,
                 sourceContents, FALSE)
    ELSE IF versionEntry = NullVersion            \* !versionEntry
    THEN Matched(reactDomFilename, TRUE, "unknown version", NullVersion, filenameIndex, by,
                 sourceContents, TRUE)
    ELSE Matched(reactDomFilename, FALSE, NoError, versionEntry, filenameIndex, by,
                 sourceContents, TRUE)

\* lines 349-356: the position found, or the throw when there is none
ReadContents(reactDomFilename, filenameIndex, by, sourceContents) ==
    IF filenameIndex = 0
    THEN Matched(reactDomFilename, TRUE, "source not found", NullVersion, 0, "none",
                 NullContent, FALSE)
    ELSE LookUpVersion(reactDomFilename, filenameIndex, by, sourceContents,
                       hashesToSourcemapDescriptors(hashSHA256(sourceContents)))

SelectSource(reactDomFilename, inputSourcemap, filenameIndex, by) ==
    ReadContents(reactDomFilename, filenameIndex, by,
                 SourceContentsAt(inputSourcemap, filenameIndex))

\* lines 338-347: the findIndex pass runs only when indexOf found nothing
SecondPass(reactDomFilename, inputSourcemap, exactIndex) ==
    IF exactIndex = 0
    THEN SelectSource(reactDomFilename, inputSourcemap,
                      FindIndexFrom(inputSourcemap.sources, reactDomFilename, 1), "fallback")
    ELSE SelectSource(reactDomFilename, inputSourcemap, exactIndex, "exact")

findMatchingReactDOMVersion(reactDomFilename, inputSourcemap) ==
    SecondPass(reactDomFilename, inputSourcemap,
               IndexOf(inputSourcemap.sources, reactDomFilename))

(***************************************************************************)
(* The resolution callback handed to remapping                             *)
(***************************************************************************)
\* what one call of the callback did
Loaded(kind, error, map, pushed, match, read) ==
    [kind |-> kind, error |-> error, map |-> map, pushed |-> pushed,
     match |-> match, read |-> read]

\* one read of the registry storage
Read(versionEntry, found) == [versionEntry |-> versionEntry, found |-> found]

\* a faulty variant that treats a stored sourcemap that cannot be loaded as "no replacement"
AfterLoad_swallow_error(m, found, sourcemap) ==
    IF sourcemap.raised
    THEN Loaded("null", NoError, NoValue, <<m.versionEntry>>, <<m>>,
                <<Read(m.versionEntry, found)>>)
    ELSE Loaded("map", NoError, sourcemap.value, <<m.versionEntry>>, <<m>>,
                <<Read(m.versionEntry, found)>>)

\* a faulty variant that records the version but hands no replacement to the composer
AfterLoad_no_replacement(m, found, sourcemap) ==
    IF sourcemap.raised
    THEN Loaded("throw", sourcemap.error, NoValue, <<m.versionEntry>>, <<m>>,
                <<Read(m.versionEntry, found)>>)
    ELSE Loaded("null", NoError, NoValue, <<m.versionEntry>>, <<m>>,
                <<Read(m.versionEntry, found)>>)

\* lines 417-425: the stored sourcemap is returned, a failed load propagates
AfterLoad(m, found, sourcemap) ==
    IF sourcemap.raised
    THEN Loaded("throw", sourcemap.error, NoValue, <<m.versionEntry>>, <<m>>,
                <<Read(m.versionEntry, found)>>)
    ELSE Loaded("map", NoError, sourcemap.value, <<m.versionEntry>>, <<m>>,
                <<Read(m.versionEntry, found)>>)

\* lines 403-417: nothing catches what findMatchingReactDOMVersion throws;
\* reactVersions.push comes before the load
AfterMatch(m, storage) ==
    IF m.threw
    THEN Loaded("throw", m.error, NoValue, <<>>, <<m>>, <<>>)
    ELSE AfterLoad(m, storage[m.versionEntry], loadExistingSourcemap(m.versionEntry, storage))

\* (file, ctx) => ... : null, a replacement sourcemap, or a thrown error
RemappingCallback(sourceFile, inputSourcemap, storage) ==
    IF ~SUPPORTED_PACKAGES(sourceFile)           \* matchedPackage === null
    THEN Loaded("null", NoError, NoValue, <<>>, <<>>, <<>>)
    ELSE AfterMatch(findMatchingReactDOMVersion(sourceFile, inputSourcemap), storage)

(***************************************************************************)
(* Sourcemap Composer (@ampproject/remapping over trace-mapping)           *)
(***************************************************************************)
\* TraceMap.resolvedSources: every source resolved against sourceRoot, itself
\* resolved against the directory of the map's own location
ResolvedSources(map, mapUrl) ==
    [k \in 1..Len(map.sources) |->
        ResolveUri(OrEmpty(map.sources[k]),
                   ResolveUri(map.sourceRoot, stripFilename(mapUrl)))]

OriginalSource(source, content) ==
    [isMap |-> FALSE, source |-> source, content |-> content, map |-> NoValue,
     children |-> <<>>]

MapSource(source, map, children) ==
    [isMap |-> TRUE, source |-> source, content |-> NullContent, map |-> map,
     children |-> children]

\* the walk's bookkeeping: the descriptors pushed so far, the matcher's calls,
\* the stored sourcemaps read, the names the callback saw, and the throw
Walk(reactVersions, matches, loads, visited, raised, error) ==
    [reactVersions |-> reactVersions, matches |-> matches, loads |-> loads,
     visited |-> visited, raised |-> raised, error |-> error]

\* the embedded content of the k-th source of a map
ContentAt(map, k) ==
    IF map.hasSourcesContent /\ k \in 1..Len(map.sourcesContent)
    THEN map.sourcesContent[k] ELSE NullContent

\* the walk after the callback ran on the k-th source
AfterCallback(walk, map, k, sourceFile, r) ==
    [walk |-> Walk(walk.reactVersions \o r.pushed, walk.matches \o r.match,
                   walk.loads \o r.read, Append(walk.visited, sourceFile),
                   r.kind = "throw", r.error),
     isMap |-> r.kind = "map",
     map |-> r.map,
     sourceFile |-> sourceFile,
     node |-> OriginalSource(sourceFile, ContentAt(map, k))]

CallLoader(walk, map, k, sourceFile, inputSourcemap, storage) ==
    AfterCallback(walk, map, k, sourceFile,
                  RemappingCallback(sourceFile, inputSourcemap, storage))

\* loader(ctx.source, ctx) on the k-th resolved source
VisitSource(map, mapUrl, k, walk, inputSourcemap, storage) ==
    CallLoader(walk, map, k, ResolvedSources(map, mapUrl)[k], inputSourcemap, storage)

Built(walk, node) == [walk |-> walk, node |-> node]

\* remapping's build, from the k-th source on: depth-first, sources in document
\* order, the callback invoked once per source and the returned sourcemap
\* walked in turn; a throw of the callback ends the walk
RECURSIVE buildChildren(_, _, _, _, _, _, _)
buildChildren(map, mapUrl, k, walk, children, inputSourcemap, storage) ==
    IF walk.raised \/ k > Len(map.sources)
    THEN Built(walk, MapSource(mapUrl, map, children))
    ELSE LET v == VisitSource(map, mapUrl, k, walk, inputSourcemap, storage)
         IN  IF v.isMap
             THEN LET sub == buildChildren(v.map, v.sourceFile, 1, v.walk, <<>>,
                                           inputSourcemap, storage)
                  IN  buildChildren(map, mapUrl, k + 1, sub.walk,
                                    Append(children, sub.node), inputSourcemap, storage)
             ELSE buildChildren(map, mapUrl, k + 1, v.walk, Append(children, v.node),
                                inputSourcemap, storage)

\* buildSourceMapTree
build(map, mapUrl, walk, inputSourcemap, storage) ==
    buildChildren(map, mapUrl, 1, walk, <<>>, inputSourcemap, storage)

\* originalPositionFor: follow a segment down to an original source; nothing
\* when a replaced layer has no segment to continue with
RECURSIVE originalPositionFor(_)
originalPositionFor(node) ==
    IF ~node.isMap THEN <<[source |-> node.source, content |-> node.content]>>
    ELSE IF node.map.mappings = <<>> THEN <<>>
    ELSE IF node.map.mappings[1] \in 1..Len(node.children)
    THEN originalPositionFor(node.children[node.map.mappings[1]])
    ELSE <<>>

\* traceMappings: the traced segments of the root map, in order; a segment
\* without a source stays sourceless
RECURSIVE TracedFrom(_, _)
TracedFrom(root, g) ==
    IF g > Len(root.map.mappings) THEN <<>>
    ELSE (IF root.map.mappings[g] \in 1..Len(root.children)
          THEN originalPositionFor(root.children[root.map.mappings[g]])
          ELSE <<[source |-> EmptyName, content |-> NullContent]>>)
         \o TracedFrom(root, g + 1)

\* GenMapping: sources are added on first reference, segments index into them;
\* a segment traced to a source without a name is kept sourceless (index 0)
RECURSIVE Assemble(_, _, _, _, _)
Assemble(traced, g, sources, contents, mappings) ==
    IF g > Len(traced)
    THEN SourceMapV3(sources, TRUE, contents, NoRoot, mappings)
    ELSE IF traced[g].source = EmptyName          \* !source
    THEN Assemble(traced, g + 1, sources, contents, Append(mappings, 0))
    ELSE IF IndexOf(sources, traced[g].source) = 0
    THEN Assemble(traced, g + 1, Append(sources, traced[g].source),
                  Append(contents, traced[g].content),
                  Append(mappings, Len(sources) + 1))
    ELSE Assemble(traced, g + 1, sources, contents,
                  Append(mappings, IndexOf(sources, traced[g].source)))

traceMappings(root) == Assemble(TracedFrom(root, 1), 1, <<>>, <<>>, <<>>)

(***************************************************************************)
(* Orchestration entry point                                               *)
(***************************************************************************)
RewriteSourcemapResult(raised, error, outputSourcemap, rewroteSourcemap, reactVersion, walk) ==
    [raised |-> raised, error |-> error, outputSourcemap |-> outputSourcemap,
     rewroteSourcemap |-> rewroteSourcemap, reactVersion |-> reactVersion,
     reactVersions |-> walk.reactVersions, matches |-> walk.matches,
     loads |-> walk.loads, visited |-> walk.visited]

NoWalk == Walk(<<>>, <<>>, <<>>, <<>>, FALSE, NoError)

\* a faulty variant that reports the last descriptor instead of the first
Returned_last_version(walk, remapped) ==
    RewriteSourcemapResult(FALSE, NoError, remapped,
        Len(walk.reactVersions) > 0,
        IF Len(walk.reactVersions) > 0 THEN walk.reactVersions[Len(walk.reactVersions)]
        ELSE NullVersion,
        walk)

\* lines 435-439
Returned(walk, remapped) ==
    RewriteSourcemapResult(FALSE, NoError, remapped,
        Len(walk.reactVersions) > 0,                                  \* rewroteSourcemap
        IF Len(walk.reactVersions) > 0 THEN walk.reactVersions[1]
        ELSE NullVersion,                                             \* reactVersions[0] ?? null
        walk)

\* remapping either threw what the callback threw, or returned the composition
AfterRemapping(b) ==
    IF b.walk.raised
    THEN RewriteSourcemapResult(TRUE, b.walk.error, NoValue, FALSE, NullVersion, b.walk)
    ELSE Returned(b.walk, traceMappings(b.node))

maybeRewriteSourcemapWithReactProd(inputSourcemap, storage) ==
    IF ~isSourceMapV3(inputSourcemap)
    THEN RewriteSourcemapResult(TRUE, "Invalid sourcemap", NoValue, FALSE, NullVersion, NoWalk)
    ELSE AfterRemapping(build(inputSourcemap, EmptyName, NoWalk, inputSourcemap, storage))

(***************************************************************************)
(* The library's API driven by a caller: loadSourcemap on a file, then     *)
(* maybeRewriteSourcemapWithReactProd on a value, then once more on the    *)
(* returned outputSourcemap.                                               *)
(***************************************************************************)
NoResult == RewriteSourcemapResult(FALSE, NoError, NoValue, FALSE, NullVersion, NoWalk)

\* the file is absent, is not JSON, or holds the JSON text of a value
IsFile(f) ==
    \/ f \in {AbsentFile, GarbageFile}
    \/ \E v \in InvalidValues \ {NoValue} : f = JsonFile(v)
    \/ \E n \in 0..MaxSources :
         \E srcs \in [1..n -> SourceNames], root \in SourceRoots, count \in 0..n :
            \/ f = JsonFile(SourceMapV3(srcs, FALSE, <<>>, root, MappingsOf(count)))
            \/ \E cont \in [1..n -> Contents] :
                 f = JsonFile(SourceMapV3(srcs, TRUE, cont, root, MappingsOf(count)))

PluginIdle ==
    /\ emitted = <<>>
    /\ disk = <<>>
    /\ generatedAssets = <<>>
    /\ i = 0
    /\ ppc = "idle"
    /\ reads = <<>>
    /\ writes = <<>>
    /\ outcomes = <<>>

Init ==
    /\ IsFile(file)
    /\ doc = NoValue
    /\ result = NoResult
    /\ pc = "start"
    /\ pass = 0
    /\ firstResult = NoResult
    /\ PluginIdle

AfterLoadSourcemap(r) ==
    /\ doc' = r.value
    /\ result' = RewriteSourcemapResult(r.raised, r.error, NoValue, FALSE, NullVersion, NoWalk)
    /\ pc' = IF r.raised THEN "load_raised" ELSE "loaded"

\* loadSourcemap(filePath)
LoadSourcemap ==
    /\ pc = "start"
    /\ AfterLoadSourcemap(loadSourcemap(file))
    /\ UNCHANGED <<file, pass, firstResult>>
    /\ UNCHANGED pluginVars

\* the call's effect on the caller's state
Called(inputSourcemap, r) ==
    /\ doc' = inputSourcemap
    /\ result' = r
    /\ pc' = IF r.raised THEN "raised" ELSE "returned"

Call(inputSourcemap, storage) ==
    Called(inputSourcemap, maybeRewriteSourcemapWithReactProd(inputSourcemap, storage))

\* maybeRewriteSourcemapWithReactProd(loadSourcemap(filePath))
Rewrite ==
    /\ pc = "loaded"
    /\ \E storage \in Storages : Call(doc, storage)
    /\ pass' = 1
    /\ UNCHANGED <<file, firstResult>>
    /\ UNCHANGED pluginVars

\* maybeRewriteSourcemapWithReactProd on a value the caller parsed itself
\* (undefined when there was nothing to parse)
RewriteParsed ==
    /\ pc = "start"
    /\ file.state \in {"json", "absent"}
    /\ \E storage \in Storages : Call(file.value, storage)
    /\ pass' = 1
    /\ UNCHANGED <<file, firstResult>>
    /\ UNCHANGED pluginVars

\* maybeRewriteSourcemapWithReactProd(result.outputSourcemap)
RewriteOutput ==
    /\ pc = "returned"
    /\ pass = 1
    /\ \E storage \in Storages : Call(result.outputSourcemap, storage)
    /\ pass' = 2
    /\ firstResult' = result
    /\ UNCHANGED file
    /\ UNCHANGED pluginVars

Next == LoadSourcemap \/ Rewrite \/ RewriteParsed \/ RewriteOutput

Spec == Init /\ [][Next]_vars

(***************************************************************************)
(* Build-tool integration: rewireSourceMapsFromGeneratedAssetList          *)
(***************************************************************************)
\* asset paths, as their dot-separated components
IndexJs == <<"index", "js">>
IndexJsMap == <<"index", "js", "map">>
VendorJsMap == <<"vendor", "js", "map">>
Paths == {IndexJs, IndexJsMap, VendorJsMap}

\* file.endsWith(".map")
EndsWithMap(path) == Len(path) >= 2 /\ path[Len(path)] = "map"

\* what a bundler may leave at a sourcemap path
BundleWithReact == SourceMapV3(<<AppName, WebDotName>>, TRUE, <<OtherText, ProdText>>, NoRoot, <<1, 2>>)
BundleWithoutReact == SourceMapV3(<<AppName>>, TRUE, <<OtherText>>, NoRoot, <<1>>)
BundleWithUnknownReact == SourceMapV3(<<WebDotName>>, TRUE, <<OtherText>>, NoRoot, <<1>>)
BundleOfVersion2 == Value("object", 2, TRUE, TRUE, <<AppName>>, TRUE, <<OtherText>>, NoRoot, <<1>>)
EmittedFiles ==
    {AbsentFile, GarbageFile, JsonFile(BundleWithReact), JsonFile(BundleWithoutReact),
     JsonFile(BundleWithUnknownReact), JsonFile(BundleOfVersion2)}

\* one pass of the loop body over an asset: what it read and wrote, and
\* whether an error left the function
Step(raised, read, wrote, written, outcome) ==
    [raised |-> raised, read |-> read, wrote |-> wrote, written |-> written,
     outcome |-> outcome]

\* what loading and rewriting one sourcemap came to
Outcome(path, raised, rewroteSourcemap) ==
    [path |-> path, raised |-> raised, rewroteSourcemap |-> rewroteSourcemap]

\* a faulty variant that writes the output whether or not anything was rewritten
AfterRewrite_always_write(path, onDisk, rewriteResult) ==
    IF rewriteResult.raised
    THEN Step(TRUE, <<path>>, <<>>, onDisk, <<Outcome(path, TRUE, FALSE)>>)
    ELSE Step(FALSE, <<path>>, <<path>>, JsonFile(rewriteResult.outputSourcemap),
              <<Outcome(path, FALSE, rewriteResult.rewroteSourcemap)>>)

\* a faulty variant that isolates a failing rewrite and moves on to the next asset
AfterRewrite_isolate_errors(path, onDisk, rewriteResult) ==
    IF rewriteResult.raised
    THEN Step(FALSE, <<path>>, <<>>, onDisk, <<Outcome(path, TRUE, FALSE)>>)
    ELSE IF ~rewriteResult.rewroteSourcemap
    THEN Step(FALSE, <<path>>, <<>>, onDisk, <<Outcome(path, FALSE, FALSE)>>)
    ELSE Step(FALSE, <<path>>, <<path>>, JsonFile(rewriteResult.outputSourcemap),
              <<Outcome(path, FALSE, TRUE)>>)

\* lines 33-42: skip when nothing was rewritten, else fs.writeFileSync
AfterRewrite(path, onDisk, rewriteResult) ==
    IF rewriteResult.raised
    THEN Step(TRUE, <<path>>, <<>>, onDisk, <<Outcome(path, TRUE, FALSE)>>)
    ELSE IF ~rewriteResult.rewroteSourcemap       \* continue
    THEN Step(FALSE, <<path>>, <<>>, onDisk, <<Outcome(path, FALSE, FALSE)>>)
    ELSE Step(FALSE, <<path>>, <<path>>, JsonFile(rewriteResult.outputSourcemap),
              <<Outcome(path, FALSE, TRUE)>>)

\* line 29: maybeRewriteSourcemapWithReactProd(loadSourcemap(file), ...)
AfterLoadAsset(path, onDisk, loaded, storage) ==
    IF loaded.raised
    THEN Step(TRUE, <<path>>, <<>>, onDisk, <<Outcome(path, TRUE, FALSE)>>)
    ELSE AfterRewrite(path, onDisk,
                      maybeRewriteSourcemapWithReactProd(loaded.value, storage))

\* the body of the for loop, for the asset at `path` holding `onDisk`
LoopBody(path, onDisk, storage) ==
    IF ~EndsWithMap(path)                          \* continue
    THEN Step(FALSE, <<>>, <<>>, onDisk, <<>>)
    ELSE AfterLoadAsset(path, onDisk, loadSourcemap(onDisk), storage)

ApiIdle ==
    /\ file = AbsentFile
    /\ doc = NoValue
    /\ result = NoResult
    /\ pc = "idle"
    /\ pass = 0
    /\ firstResult = NoResult

PluginInit ==
    /\ \E js \in {GarbageFile}, a \in EmittedFiles, b \in EmittedFiles :
         emitted = [p \in Paths |-> IF p = IndexJs THEN js
                                    ELSE IF p = IndexJsMap THEN a ELSE b]
    /\ disk = emitted
    /\ \E n \in 0..MaxAssets : generatedAssets \in [1..n -> Paths]
    /\ i = 0
    /\ ppc = "entry"
    /\ reads = <<>>
    /\ writes = <<>>
    /\ outcomes = <<>>
    /\ ApiIdle

\* if (!generatedAssets.length) { log(...); return; }
ReturnEmpty ==
    /\ ppc = "entry"
    /\ Len(generatedAssets) = 0
    /\ ppc' = "returned"
    /\ UNCHANGED <<emitted, disk, generatedAssets, i, reads, writes, outcomes>>
    /\ UNCHANGED apiVars

\* for (let i = 0; ...
EnterLoop ==
    /\ ppc = "entry"
    /\ Len(generatedAssets) > 0
    /\ ppc' = "loop"
    /\ i' = 0
    /\ UNCHANGED <<emitted, disk, generatedAssets, reads, writes, outcomes>>
    /\ UNCHANGED apiVars

\* the effect of one iteration on the loop's state
Iterated(path, step) ==
    /\ reads' = reads \o step.read
    /\ writes' = writes \o step.wrote
    /\ outcomes' = outcomes \o step.outcome
    /\ disk' = [disk EXCEPT ![path] = step.written]
    /\ ppc' = IF step.raised THEN "raised" ELSE "loop"
    /\ i' = IF step.raised THEN i ELSE i + 1

\* one iteration of the loop
Iterate ==
    /\ ppc = "loop"
    /\ i < Len(generatedAssets)
    /\ \E storage \in Storages :
         Iterated(generatedAssets[i + 1],
                  LoopBody(generatedAssets[i + 1], disk[generatedAssets[i + 1]], storage))
    /\ UNCHANGED <<emitted, generatedAssets>>
    /\ UNCHANGED apiVars

\* i < generatedAssets.length fails
ExitLoop ==
    /\ ppc = "loop"
    /\ i >= Len(generatedAssets)
    /\ ppc' = "returned"
    /\ UNCHANGED <<emitted, disk, generatedAssets, i, reads, writes, outcomes>>
    /\ UNCHANGED apiVars

PluginNext == ReturnEmpty \/ EnterLoop \/ Iterate \/ ExitLoop

PluginSpec == PluginInit /\ [][PluginNext]_vars

(***************************************************************************)
(* Vocabulary of the properties                                            *)
(***************************************************************************)
\* the name contains react-dom.production.min.js or react-dom.profiling.min.js
HasMinifiedName(n) == \E k \in DOMAIN n.segs : n.segs[k] \in {ProdMin, ProfMin}

\* an object with version 3 and both required fields
IsValidDocument(v) == v.kind = "object" /\ v.version = 3 /\ v.hasNames /\ v.hasSources

\* a call of maybeRewriteSourcemapWithReactProd on `doc` has ended
RewriteEnded == pc \in {"returned", "raised"}

PerReferenceFailures == {"source not found", "missing content", "unknown version"}

\* the stored sourcemap is absent, unparseable, or not a version-3 document
Unloadable(f) == f.state # "json" \/ ~IsValidDocument(f.value)

\* the name the k-th source of a top-level document stands for
Resolved(map, k) ==
    ResolveUri(OrEmpty(map.sources[k]), ResolveUri(map.sourceRoot, EmptyName))

\* what the segments of a document point to, in order (the empty name when a
\* segment has no source)
Meaning(map) ==
    [g \in DOMAIN map.mappings |->
        IF map.mappings[g] = 0 THEN EmptyName ELSE Resolved(map, map.mappings[g])]

\* the positions of the sources with a minified name
MinifiedPositions(map) == { k \in DOMAIN map.sources : HasMinifiedName(map.sources[k]) }

RegistryEntryOf(content) ==
    IF content = ProdText THEN ReactDomProd
    ELSE IF content = ProfText THEN ReactDomProf ELSE NullVersion

Least(S) == CHOOSE k \in S : \A m \in S : k <= m

(***************************************************************************)
(* C1: a per-reference resolution failure (source not found, missing       *)
(* content, unknown version) never makes rewrite raise: the call returns   *)
(* and, when nothing else resolved, reports rewroteSourcemap = false.      *)
(***************************************************************************)
C1_ResolutionFailureNeverRaises ==
    (RewriteEnded /\ \E k \in DOMAIN result.matches : result.matches[k].threw)
        => /\ pc = "returned"
           /\ (result.reactVersions = <<>> => ~result.rewroteSourcemap)

(***************************************************************************)
(* C2: a valid document with exactly one source of minified name, whose    *)
(* embedded content is registered, is rewritten: rewroteSourcemap = true,  *)
(* reactVersion is the registry entry of that content, and the output      *)
(* references no minified name but the replacement's sources.  (Stored     *)
(* sourcemaps that cannot be loaded are C6's case and are left out.)       *)
(***************************************************************************)
C2_SingleRegisteredReferenceIsRewritten ==
    (/\ RewriteEnded
     /\ IsValidDocument(doc)
     /\ Cardinality(MinifiedPositions(doc)) = 1
     /\ \A k \in MinifiedPositions(doc) :
            /\ doc.hasSourcesContent
            /\ RegistryEntryOf(doc.sourcesContent[k]) # NullVersion
     /\ \A r \in DOMAIN result.loads : ~Unloadable(result.loads[r].found))
        => /\ pc = "returned"
           /\ result.rewroteSourcemap
           /\ \A k \in MinifiedPositions(doc) :
                /\ result.reactVersion = RegistryEntryOf(doc.sourcesContent[k])
                /\ (k \in DOMAIN doc.mappings =>
                       \E o \in DOMAIN result.outputSourcemap.sources :
                           result.outputSourcemap.sources[o]
                             = ResolveUri(OriginalName(result.reactVersion),
                                          stripFilename(Resolved(doc, k))))
           /\ MinifiedPositions(result.outputSourcemap) = {}

(***************************************************************************)
(* C3: a valid document with no source of minified name passes through:    *)
(* rewroteSourcemap = false, reactVersion none, neither the registry nor   *)
(* its storage is consulted, and the output's segments point where the     *)
(* input's did.                                                            *)
(***************************************************************************)
C3_NoMatchingSourcePassesThrough ==
    (RewriteEnded /\ IsValidDocument(doc) /\ MinifiedPositions(doc) = {})
        => /\ pc = "returned"
           /\ ~result.rewroteSourcemap
           /\ result.reactVersion = NullVersion
           /\ result.matches = <<>>
           /\ result.loads = <<>>
           /\ Meaning(result.outputSourcemap) = Meaning(doc)

C3_Witness ==
    /\ pc = "returned"
    /\ pass = 1
    /\ IsValidDocument(doc)
    /\ MinifiedPositions(doc) = {}
    /\ Len(doc.mappings) = 2
    /\ doc.sourceRoot = SrcRoot
    /\ ~result.rewroteSourcemap

(***************************************************************************)
(* C4: a value that is null, absent, of a version other than 3, or without *)
(* sources or names is rejected: loadSourcemap raises on a file holding    *)
(* it, maybeRewriteSourcemapWithReactProd raises on it before the walk     *)
(* visits any source or matches anything, and neither returns.             *)
(***************************************************************************)
C4_InvalidDocumentIsRejected ==
    /\ (pc \in {"loaded", "load_raised"}
          /\ (file.state = "absent" \/ (file.state = "json" /\ ~IsValidDocument(file.value))))
        => (pc = "load_raised" /\ result.raised /\ doc = NoValue)
    /\ (RewriteEnded /\ ~IsValidDocument(doc))
        => /\ pc = "raised"
           /\ result.raised
           /\ result.error = "Invalid sourcemap"
           /\ result.outputSourcemap = NoValue
           /\ result.visited = <<>>
           /\ result.matches = <<>>
           /\ result.loads = <<>>

C4_Witness ==
    /\ pc = "raised"
    /\ doc.kind = "object"
    /\ doc.version = 3
    /\ doc.hasNames
    /\ ~doc.hasSources

(***************************************************************************)
(* C5: in every returned result rewroteSourcemap is true exactly when a    *)
(* descriptor was accumulated, reactVersion is the first accumulated one   *)
(* (none exactly when rewroteSourcemap is false), and the descriptors are  *)
(* accumulated one per resolved reference in the order the references were *)
(* met, also when several references match.                                *)
(***************************************************************************)
\* the resolved names of the document's sources that are minified, in order
RECURSIVE MinifiedInOrder(_, _)
MinifiedInOrder(map, k) ==
    IF k > Len(map.sources) THEN <<>>
    ELSE (IF HasMinifiedName(map.sources[k])
          THEN <<Resolved(map, k)>>
          ELSE <<>>) \o MinifiedInOrder(map, k + 1)

C5_ResultReportsFirstAccumulated ==
    pc = "returned"
        => /\ result.rewroteSourcemap = (Len(result.reactVersions) > 0)
           /\ (result.reactVersion = NullVersion) = ~result.rewroteSourcemap
           /\ (Len(result.reactVersions) > 0 => result.reactVersion = result.reactVersions[1])
           /\ Len(result.reactVersions) = Len(result.matches)
           /\ \A k \in DOMAIN result.matches :
                 result.reactVersions[k] = result.matches[k].versionEntry
           /\ [k \in DOMAIN result.matches |-> result.matches[k].reactDomFilename]
                 = MinifiedInOrder(doc, 1)

C5_Witness ==
    /\ pc = "returned"
    /\ Len(result.reactVersions) = 2
    /\ result.reactVersions[1] = ReactDomProf
    /\ result.reactVersions[2] = ReactDomProd
    /\ result.reactVersion = ReactDomProf

(***************************************************************************)
(* C6: when a reference's fingerprint is registered but its stored         *)
(* sourcemap cannot be loaded (absent, unparseable, not version 3), the    *)
(* error leaves rewrite: no result is returned.                            *)
(***************************************************************************)
C6_RegistryLoadErrorPropagates ==
    (RewriteEnded /\ \E r \in DOMAIN result.loads : Unloadable(result.loads[r].found))
        => /\ pc = "raised"
           /\ result.raised
           /\ result.error \in {"Cannot find", "SyntaxError", "Invalid sourcemap"}
           /\ result.outputSourcemap = NoValue
           /\ ~result.rewroteSourcemap

C6_Witness ==
    /\ pc = "raised"
    /\ Len(result.loads) = 2
    /\ ~Unloadable(result.loads[1].found)
    /\ result.loads[2].found.state = "json"
    /\ Unloadable(result.loads[2].found)

(***************************************************************************)
(* C7: the matcher selects the first source equal to the candidate; only   *)
(* when there is none, the first non-null source whose normalised form     *)
(* equals the candidate; it fails with source-not-found only when both     *)
(* passes find nothing; the content fingerprinted is the one at the        *)
(* selected position.                                                      *)
(***************************************************************************)
ExactPositions(map, candidate) == { k \in DOMAIN map.sources : map.sources[k] = candidate }

NormalizedPositions(map, candidate) ==
    { k \in DOMAIN map.sources :
        /\ map.sources[k] \notin {NullName, EmptyName}
        /\ ResolveUri(map.sources[k], EmptyName) = candidate }

TwoPasses(m) ==
    /\ ExactPositions(doc, m.reactDomFilename) # {}
         => /\ m.filenameIndex = Least(ExactPositions(doc, m.reactDomFilename))
            /\ m.by = "exact"
    /\ (ExactPositions(doc, m.reactDomFilename) = {}
          /\ NormalizedPositions(doc, m.reactDomFilename) # {})
         => /\ m.filenameIndex = Least(NormalizedPositions(doc, m.reactDomFilename))
            /\ m.by = "fallback"
    /\ (m.threw /\ m.error = "source not found")
         = (ExactPositions(doc, m.reactDomFilename) = {}
              /\ NormalizedPositions(doc, m.reactDomFilename) = {})
    /\ m.filenameIndex # 0
         => m.sourceContents = (IF doc.hasSourcesContent
                                THEN doc.sourcesContent[m.filenameIndex] ELSE NullContent)
    /\ (~m.threw) => m.versionEntry = RegistryEntryOf(m.sourceContents)

\* C7 as stated: in particular a source recorded as
\* "./node_modules/.../react-dom.production.min.js" is matched by the fallback pass
C7_RelativeDotMatchedByFallback ==
    RewriteEnded =>
        \A k \in DOMAIN result.matches :
            /\ TwoPasses(result.matches[k])
            /\ (result.matches[k].filenameIndex # 0
                  /\ doc.sources[result.matches[k].filenameIndex] = RelDotName)
                 => result.matches[k].by = "fallback"

\* C7 as amended: a source that normalisation changes, such as
\* "webpack://x/./node_modules/.../react-dom.production.min.js", is matched by
\* the fallback pass; "./node_modules/.../react-dom.production.min.js" is its
\* own normalised form and is matched by the exact pass
C7_MatcherSelectsExactThenNormalized ==
    RewriteEnded =>
        \A k \in DOMAIN result.matches :
            /\ TwoPasses(result.matches[k])
            /\ (result.matches[k].filenameIndex # 0
                  /\ doc.sources[result.matches[k].filenameIndex] = RelDotName)
                 => result.matches[k].by = "exact"
            /\ (result.matches[k].filenameIndex # 0
                  /\ doc.sources[result.matches[k].filenameIndex] = WebDotName)
                 => result.matches[k].by = "fallback"

C7_Witness ==
    /\ pc = "returned"
    /\ Len(result.matches) = 2
    /\ doc.sources = <<WebDotName, RelDotName>>
    /\ result.matches[1].by = "fallback"
    /\ result.matches[1].filenameIndex = 1
    /\ result.matches[2].by = "exact"
    /\ result.matches[2].filenameIndex = 2

(***************************************************************************)
(* C9: rewrite applied to the output of a rewrite that reported            *)
(* rewroteSourcemap = true reports rewroteSourcemap = false and no         *)
(* version: the output has no source of minified name left.                *)
(***************************************************************************)
C9_SecondPassRewritesNothing ==
    (pass = 2 /\ firstResult.rewroteSourcemap)
        => /\ pc = "returned"
           /\ ~result.rewroteSourcemap
           /\ result.reactVersion = NullVersion
           /\ MinifiedPositions(doc) = {}

C9_Witness ==
    /\ pass = 2
    /\ pc = "returned"
    /\ firstResult.rewroteSourcemap
    /\ Len(firstResult.reactVersions) = 2
    /\ Len(doc.sources) = 2
    /\ ~result.rewroteSourcemap

(***************************************************************************)
(* C8: the integration writes a file only if its path ends with ".map" and *)
(* rewrite reported rewroteSourcemap = true for it; every other asset is   *)
(* left as the build tool emitted it, and an empty asset list causes no    *)
(* read and no write.                                                      *)
(***************************************************************************)
\* the paths of the outcomes that reported rewroteSourcemap = true, in order
RECURSIVE RewrittenPaths(_, _)
RewrittenPaths(log, k) ==
    IF k > Len(log) THEN <<>>
    ELSE (IF log[k].rewroteSourcemap THEN <<log[k].path>> ELSE <<>>)
         \o RewrittenPaths(log, k + 1)

C8_WritesOnlyRewrittenSourcemaps ==
    /\ writes = RewrittenPaths(outcomes, 1)
    /\ \A k \in DOMAIN writes : EndsWithMap(writes[k])
    /\ \A p \in DOMAIN disk :
          (\A k \in DOMAIN writes : writes[k] # p) => disk[p] = emitted[p]
    /\ \A p \in DOMAIN disk :
          ~EndsWithMap(p) => (disk[p] = emitted[p] /\ \A k \in DOMAIN reads : reads[k] # p)
    /\ generatedAssets = <<>> => (reads = <<>> /\ writes = <<>>)

C8_Witness ==
    /\ ppc = "returned"
    /\ generatedAssets = <<IndexJs, IndexJsMap, VendorJsMap>>
    /\ writes = <<IndexJsMap>>
    /\ reads = <<IndexJsMap, VendorJsMap>>
    /\ disk[IndexJsMap] # emitted[IndexJsMap]
    /\ disk[VendorJsMap] = emitted[VendorJsMap]

(***************************************************************************)
(* C10: the loop processes the assets in list order with no error          *)
(* isolation and no rollback: when loading or rewriting the sourcemap at   *)
(* position i raises, the error leaves the function, the assets after i    *)
(* are never read or written, and what was written before stays written.   *)
(***************************************************************************)
\* the sourcemap paths among the first `count` assets, in list order
RECURSIVE SourcemapsAmong(_, _, _)
SourcemapsAmong(assets, k, count) ==
    IF k > count THEN <<>>
    ELSE (IF EndsWithMap(assets[k]) THEN <<assets[k]>> ELSE <<>>)
         \o SourcemapsAmong(assets, k + 1, count)

C10_ErrorEndsTheLoop ==
    /\ reads = SourcemapsAmong(generatedAssets, 1, IF ppc = "raised" THEN i + 1 ELSE i)
    /\ [k \in DOMAIN outcomes |-> outcomes[k].path] = reads
    /\ \A k \in DOMAIN outcomes :
          outcomes[k].raised => (k = Len(outcomes) /\ ppc = "raised")
    /\ ppc = "raised"
         => /\ i < Len(generatedAssets)
            /\ outcomes # <<>>
            /\ outcomes[Len(outcomes)].raised
            /\ outcomes[Len(outcomes)].path = generatedAssets[i + 1]
            /\ ~ENABLED PluginNext
            /\ \A k \in DOMAIN writes :
                 /\ \E j \in 1..i : generatedAssets[j] = writes[k]
                 /\ disk[writes[k]] # emitted[writes[k]]

C10_Witness ==
    /\ ppc = "raised"
    /\ i = 1
    /\ generatedAssets = <<IndexJsMap, VendorJsMap, VendorJsMap>>
    /\ writes = <<IndexJsMap>>
    /\ reads = <<IndexJsMap, VendorJsMap>>
    /\ disk[IndexJsMap] # emitted[IndexJsMap]

====
